---- MODULE Spec2Model ----
(***************************************************************************)
(* Model of the Bac Bo statistics scraper (src/scraper.py): the extraction *)
(* cycle BacBoScraper.get_betting_statistics with its collectors           *)
(* _extract_stats_from_screenshot and _extract_stats_from_context (Spec);  *)
(* of the monitoring loop BacBoBot.run and run_once of src/bot.py          *)
(* (BotSpec, and BotFairSpec where the thread of run() keeps running);     *)
(* and of the web controller of src/app_ui.py with the threads of the      *)
(* bots it starts (UiSpec).                                                *)
(*                                                                         *)
(* Texts are sequences of tokens: a label keyword, a percent number        *)
(* ("70%"), another word, or (in markup only) a tag "<...>".  Tokens of a  *)
(* text are separated by white space; a tag touches its neighbours.        *)
(* Every modelled text, markup and transcript is shorter than 200          *)
(* characters, so the +-200 character windows of the code cover the whole  *)
(* text and the {0,200} gaps of its patterns never bind.                   *)
(*                                                                         *)
(* Percent values are Python floats; the model keeps them exactly, in      *)
(* tenths of a percent (Float(70) = 700), so that (100 - p) * 0.6 is an    *)
(* integer.  An optional value is <<>> (None) or <<v>>.                    *)
(***************************************************************************)
EXTENDS Integers, Sequences, FiniteSets, TLC

(***************************************************************************)
(* State.                                                                  *)
(***************************************************************************)
VARIABLES
    pc,      \* position in get_betting_statistics
    driver,  \* self.driver: "none" or "open"
    page,    \* the rendering, each piece fixed when the driver first reads it
    idx,     \* index of the iframe loops
    calls,   \* strategies and driver operations of the current call, in order
    trace,   \* locals of the collector that ran last
    result,  \* what the current call returned
    by,      \* the strategy that returned it
    now,     \* time.time(), one tick per call
    prev,    \* outcome of the previous call, kept when the rendering is unchanged
    bot,     \* BacBoBot: last_stats, last_alert_time, last_stats_sent, _stop
    bpc,     \* position of the thread in BacBoBot.run
    clock,   \* time.time() in seconds
    last_status_update,  \* local of BacBoBot.run
    cycle,   \* the iteration of the run loop in progress, or the last one
    log,     \* status notifications and entry alerts of this iteration, in order
    before,  \* the last ones of the iterations before it, and the shutdown message
    lastReading,  \* the record of the last cycle that had one
    bots,    \* app_ui: the BacBoBot instances created so far, with their threads
    ui       \* app_ui: _bot_instance and _bot_thread

scraperVars == <<pc, driver, page, idx, calls, trace, result, by, now, prev>>
botVars == <<bot, bpc, clock, last_status_update, cycle, log, before, lastReading>>
uiVars == <<bots, ui>>

vars == <<scraperVars, botVars, uiVars>>

Labels == {"player", "banker", "tie"}

Kw(l) == [t |-> "kw", l |-> l, n |-> 0]
Pct(n) == [t |-> "pct", l |-> "", n |-> n]
Word == [t |-> "word", l |-> "", n |-> 0]
Tag == [t |-> "tag", l |-> "", n |-> 0]

None == <<>>
Some(v) == <<v>>
IsNone(x) == x = <<>>

Float(n) == n * 10

MinOf(S) == CHOOSE x \in S : \A y \in S : x <= y
MaxOf(S) == CHOOSE x \in S : \A y \in S : y <= x
Range(s) == {s[i] : i \in 1..Len(s)}
Count(s, x) == Cardinality({i \in 1..Len(s) : s[i] = x})

RECURSIVE Flatten(_)
Flatten(ss) == IF ss = <<>> THEN <<>> ELSE Head(ss) \o Flatten(Tail(ss))

(***************************************************************************)
(* Views of a document.  A document is a sequence of units, one per        *)
(* element; element.text is the unit without its inline tags, and the      *)
(* page source wraps every unit in an opening and a closing tag.           *)
(***************************************************************************)
ElementText(unit) == SelectSeq(unit, LAMBDA k : k.t # "tag")

PageSource(units) == Flatten([i \in 1..Len(units) |-> <<Tag>> \o units[i] \o <<Tag>>])

\* any(keyword in text_upper for keyword in [...])
HasKw(text, l) == \E i \in 1..Len(text) : text[i] = Kw(l)

\* re.findall(r'(\d+)%', text): the digit strings, in order
FindPercents(text) ==
    LET s == SelectSeq(text, LAMBDA k : k.t = "pct")
    IN  [i \in 1..Len(s) |-> s[i].n]

\* float(match) for every match, kept when 0 <= val <= 100
InRange(v) == 0 <= v /\ v <= Float(100)

FloatsInRange(nums) ==
    SelectSeq([i \in 1..Len(nums) |-> Float(nums[i])], InRange)

NoCandidates == [l \in Labels |-> <<>>]

\* one text of the script loop or of the element loop: every label whose
\* keyword is in the text gets every in-range percent of the text
ClassifyText(text, c) ==
    [l \in Labels |->
        IF HasKw(text, l) THEN c[l] \o FloatsInRange(FindPercents(text)) ELSE c[l]]

RECURSIVE ClassifyTexts(_, _)
ClassifyTexts(texts, c) ==
    IF texts = <<>> THEN c
    ELSE ClassifyTexts(Tail(texts), ClassifyText(Head(texts), c))

\* the texts both loops see: non-empty (and short) element texts
VisibleTexts(units) ==
    SelectSeq([i \in 1..Len(units) |-> ElementText(units[i])], LAMBDA x : x # <<>>)

(***************************************************************************)
(* The six markup patterns, for the keyword of label l, as re.findall      *)
(* applies them to the page source M from token i on.  Each yields the     *)
(* captured digit strings as numbers.                                      *)
(***************************************************************************)
\* index of the first tag at or after i, Len(M) + 1 if none
NextTag(M, i) ==
    LET S == {j \in i..Len(M) : M[j].t = "tag"}
    IN  IF S = {} THEN Len(M) + 1 ELSE MinOf(S)

PctsBeforeTag(M, i) == {j \in i..(NextTag(M, i) - 1) : M[j].t = "pct"}
KwsBeforeTag(M, l, i) == {j \in i..(NextTag(M, i) - 1) : M[j] = Kw(l)}

\* the greedy gap of patterns 5 leaves (\d+) only the last digit
LastDigit(n) == n % 10

\* (?:KW)[^>]*?(\d+)%
RECURSIVE Pattern1(_, _, _)
Pattern1(M, l, i) ==
    IF i > Len(M) THEN <<>>
    ELSE IF M[i] = Kw(l) /\ PctsBeforeTag(M, i + 1) # {}
         THEN LET j == MinOf(PctsBeforeTag(M, i + 1))
              IN  <<M[j].n>> \o Pattern1(M, l, j + 1)
         ELSE Pattern1(M, l, i + 1)

\* (\d+)%[^<]*?(?:KW)
RECURSIVE Pattern2(_, _, _)
Pattern2(M, l, i) ==
    IF i > Len(M) THEN <<>>
    ELSE IF M[i].t = "pct" /\ KwsBeforeTag(M, l, i + 1) # {}
         THEN <<M[i].n>> \o Pattern2(M, l, MinOf(KwsBeforeTag(M, l, i + 1)) + 1)
         ELSE Pattern2(M, l, i + 1)

\* <[^>]*>(?:KW)[^<]*?(\d+)%
RECURSIVE Pattern3(_, _, _)
Pattern3(M, l, i) ==
    IF i + 1 > Len(M) THEN <<>>
    ELSE IF M[i].t = "tag" /\ M[i + 1] = Kw(l) /\ PctsBeforeTag(M, i + 2) # {}
         THEN LET j == MinOf(PctsBeforeTag(M, i + 2))
              IN  <<M[j].n>> \o Pattern3(M, l, j + 1)
         ELSE Pattern3(M, l, i + 1)

\* (\d+)%[^<]*?<[^>]*>(?:KW)
RECURSIVE Pattern4(_, _, _)
Pattern4(M, l, i) ==
    IF i > Len(M) THEN <<>>
    ELSE LET e == NextTag(M, i + 1)
         IN  IF M[i].t = "pct" /\ e + 1 <= Len(M) /\ M[e + 1] = Kw(l)
             THEN <<M[i].n>> \o Pattern4(M, l, e + 2)
             ELSE Pattern4(M, l, i + 1)

\* (?:KW)[^>]{0,200}(\d+)%
RECURSIVE Pattern5(_, _, _)
Pattern5(M, l, i) ==
    IF i > Len(M) THEN <<>>
    ELSE IF M[i] = Kw(l) /\ PctsBeforeTag(M, i + 1) # {}
         THEN LET j == MaxOf(PctsBeforeTag(M, i + 1))
              IN  <<LastDigit(M[j].n)>> \o Pattern5(M, l, j + 1)
         ELSE Pattern5(M, l, i + 1)

\* (\d+)%[^>]{0,200}(?:KW)
RECURSIVE Pattern6(_, _, _)
Pattern6(M, l, i) ==
    IF i > Len(M) THEN <<>>
    ELSE IF M[i].t = "pct" /\ KwsBeforeTag(M, l, i + 1) # {}
         THEN <<M[i].n>> \o Pattern6(M, l, MaxOf(KwsBeforeTag(M, l, i + 1)) + 1)
         ELSE Pattern6(M, l, i + 1)

\* the loop over the patterns for one label
PatternMatches(M, l) ==
    FloatsInRange(Pattern1(M, l, 1) \o Pattern2(M, l, 1) \o Pattern3(M, l, 1)
                  \o Pattern4(M, l, 1) \o Pattern5(M, l, 1) \o Pattern6(M, l, 1))

ClassifySource(M, c) == [l \in Labels |-> c[l] \o PatternMatches(M, l)]

(***************************************************************************)
(* The scan of every percent of the page source: the window around it is   *)
(* the whole source, the first keyword found in it (player, then banker,   *)
(* then tie) names the label, and the value is added unless present.       *)
(***************************************************************************)
ContextLabel(M) ==
    IF HasKw(M, "player") THEN "player"
    ELSE IF HasKw(M, "banker") THEN "banker"
    ELSE IF HasKw(M, "tie") THEN "tie"
    ELSE ""

AddIfAbsent(s, v) == IF v \in Range(s) THEN s ELSE Append(s, v)

RECURSIVE ScanPercents(_, _, _)
ScanPercents(vals, l, c) ==
    IF vals = <<>> \/ l = "" THEN c
    ELSE ScanPercents(Tail(vals), l, [c EXCEPT ![l] = AddIfAbsent(c[l], Head(vals))])

ScanSource(M, c) == ScanPercents(FloatsInRange(FindPercents(M)), ContextLabel(M), c)

(***************************************************************************)
(* The vote: max(set(c), key=lambda x: (c.count(x), x)).                   *)
(***************************************************************************)
VoteKey(s, x) == <<Count(s, x), x>>

\* the order of Python tuples
KeyLess(a, b) == a[1] < b[1] \/ (a[1] = b[1] /\ a[2] < b[2])

\* a vote that counts only: max(set(c), key=c.count)
VoteByCountOnly(s) ==
    IF s = <<>> THEN None
    ELSE Some(MinOf({x \in Range(s) : \A y \in Range(s) : Count(s, y) <= Count(s, x)}))

Vote(s) ==
    IF s = <<>> THEN None
    ELSE Some(CHOOSE x \in Range(s) : \A y \in Range(s) :
                  ~KeyLess(VoteKey(s, x), VoteKey(s, y)))

(***************************************************************************)
(* The structured-layout fallback: per element text, a percent directly    *)
(* before the keyword, else directly after it; the first match fills a     *)
(* label that is still None.  The value is not range-checked.              *)
(***************************************************************************)
NumBeforeKw(text, l) ==
    {i \in 1..(Len(text) - 1) : text[i].t = "pct" /\ text[i + 1] = Kw(l)}

KwBeforeNum(text, l) ==
    {i \in 1..(Len(text) - 1) : text[i] = Kw(l) /\ text[i + 1].t = "pct"}

StructuredText(text, r) ==
    [l \in Labels |->
        IF ~IsNone(r[l]) THEN r[l]
        ELSE IF NumBeforeKw(text, l) # {}
             THEN Some(Float(text[MinOf(NumBeforeKw(text, l))].n))
        ELSE IF KwBeforeNum(text, l) # {}
             THEN Some(Float(text[MinOf(KwBeforeNum(text, l)) + 1].n))
        ELSE None]

RECURSIVE StructuredTexts(_, _)
StructuredTexts(texts, r) ==
    IF texts = <<>> THEN r
    ELSE StructuredTexts(Tail(texts), StructuredText(Head(texts), r))

StructuredFallback(texts, r) ==
    IF \E l \in Labels : IsNone(r[l]) THEN StructuredTexts(texts, r) ELSE r

(***************************************************************************)
(* The result record and the three places that build it.                   *)
(***************************************************************************)
SumLow == 85
SumHigh == 110
WinningAbove == 50

\* a threshold that counts exactly half as winning
PlayerWinningFromHalf(p) == p >= Float(WinningAbove)

PlayerWinning(p) == p > Float(WinningAbove)

\* a record that also carries a derived flag
StatsWithFlag(p, b, t, at) ==
    [player_percent |-> p, banker_percent |-> b, tie_percent |-> t,
     player_winning |-> PlayerWinning(p), timestamp |-> at, derived |-> FALSE]

Stats(p, b, t, at) ==
    [player_percent |-> p, banker_percent |-> b, tie_percent |-> t,
     player_winning |-> PlayerWinning(p), timestamp |-> at]

Plausible(total) == Float(SumLow) <= total /\ total <= Float(SumHigh)

\* the remainder without the clamp at 0
CalculatedTieUnclamped(p, b) == Float(100) - p - b

\* tie_percent = 100 - player_percent - banker_percent; if < 0: 0
CalculatedTie(p, b) ==
    IF Float(100) - p - b < 0 THEN 0 ELSE Float(100) - p - b

\* (100 - player_percent) * 0.6
EstimatedBanker(p) == ((Float(100) - p) * 6) \div 10

\* lines 593-649: [stats, exit], exit naming the return statement taken
Validate(r, at) ==
    LET p == r["player"]
        b == r["banker"]
        t == r["tie"]
    IN  IF ~IsNone(p) /\ ~IsNone(b) /\ ~IsNone(t) /\ Plausible(p[1] + b[1] + t[1])
        THEN [stats |-> Some(Stats(p[1], b[1], t[1], at)), exit |-> "observed"]
        ELSE IF ~IsNone(p) /\ ~IsNone(b)
        THEN [stats |-> Some(Stats(p[1], b[1], CalculatedTie(p[1], b[1]), at)),
              exit |-> "calculated"]
        ELSE IF ~IsNone(p)
        THEN LET eb == EstimatedBanker(p[1])
                 et == IF IsNone(t) THEN CalculatedTie(p[1], eb) ELSE t[1]
             IN  [stats |-> Some(Stats(p[1], eb, et, at)), exit |-> "estimated"]
        ELSE [stats |-> None, exit |-> "none"]

(***************************************************************************)
(* _extract_stats_from_context on one document.  doc.fails names the       *)
(* driver calls that raise: "source" (page_source, then ""), "script"      *)
(* (execute_script, the script loop is skipped), "elements"                *)
(* (find_elements, the outer handler returns None).                        *)
(***************************************************************************)
\* candidate lists shared between calls (a mutable default argument)
InitCandidatesShared(given) ==
    IF ~IsNone(given) THEN given[1]
    ELSE IF IsNone(prev) THEN NoCandidates ELSE prev[1].candidates

\* if player_candidates is None: player_candidates = []  (and the others)
InitCandidates(given) == IF IsNone(given) THEN NoCandidates ELSE given[1]

NoValues == [l \in Labels |-> None]

extract_stats_from_context(doc, given, at) ==
    LET c0 == InitCandidates(given)
        M == IF "source" \in doc.fails THEN <<>> ELSE PageSource(doc.units)
        texts == VisibleTexts(doc.units)
        c1 == IF "script" \in doc.fails THEN c0 ELSE ClassifyTexts(texts, c0)
        c2 == ClassifyTexts(texts, c1)
        c3 == IF M # <<>> THEN ScanSource(M, ClassifySource(M, c2)) ELSE c2
        voted == [l \in Labels |-> Vote(c3[l])]
        resolved == StructuredFallback(texts, voted)
        v == Validate(resolved, at)
    IN  IF "elements" \in doc.fails
        THEN [stats |-> None, exit |-> "error", candidates |-> c0,
              voted |-> NoValues, resolved |-> NoValues]
        ELSE [stats |-> v.stats, exit |-> v.exit, candidates |-> c3,
              voted |-> voted, resolved |-> resolved]

(***************************************************************************)
(* _extract_stats_from_screenshot on a transcript: a sequence of lines     *)
(* (ocr_text.split('\n')), each a text.                                    *)
(***************************************************************************)
TripletLow == 90
TripletHigh == 110

CloseTo100(total) == Float(TripletLow) <= total /\ total <= Float(TripletHigh)

\* if x is None or val > x: x = val, over the values in order
RECURSIVE TakeLargest(_, _)
TakeLargest(vals, cur) ==
    IF vals = <<>> THEN cur
    ELSE TakeLargest(Tail(vals),
                     IF IsNone(cur) \/ Head(vals) > cur[1] THEN Some(Head(vals)) ELSE cur)

\* lines 714-745: per line, every label whose keyword is in the line
RECURSIVE OcrLines(_, _)
OcrLines(lines, r) ==
    IF lines = <<>> THEN r
    ELSE OcrLines(Tail(lines),
            [l \in Labels |->
                IF HasKw(Head(lines), l)
                THEN TakeLargest(FloatsInRange(FindPercents(Head(lines))), r[l])
                ELSE r[l]])

\* lines 747-772: every percent of the transcript, labelled by the first
\* keyword (player, banker, tie) found in the window around it
OcrContext(lines, r) ==
    LET whole == Flatten(lines)
        l == ContextLabel(whole)
    IN  IF l = "" THEN r
        ELSE [r EXCEPT ![l] = TakeLargest(FloatsInRange(FindPercents(whole)), r[l])]

AnyNone(r) == \E l \in Labels : IsNone(r[l])

\* player, tie, banker left to right
AssignTriplet(nums) ==
    [l \in Labels |-> Some(CASE l = "player" -> nums[1]
                             [] l = "tie" -> nums[2]
                             [] l = "banker" -> nums[3])]

\* lines 774-802: the first line with three percents summing close to 100
\* that carries all three keywords, or whose three values are in range
RECURSIVE InlineTriplet(_, _)
InlineTriplet(lines, r) ==
    IF lines = <<>> THEN r
    ELSE LET line == Head(lines)
             parts == FindPercents(line)
             nums == [i \in 1..3 |-> Float(parts[i])]
         IN  IF Len(parts) >= 3 /\ CloseTo100(nums[1] + nums[2] + nums[3])
                /\ (\/ \A l \in Labels : HasKw(line, l)
                    \/ \A i \in 1..3 : InRange(nums[i]))
             THEN AssignTriplet(nums)
             ELSE InlineTriplet(Tail(lines), r)

\* score = -abs(triplet[1] - min(triplet))
TripletScore(nums, i) ==
    LET m == MinOf({nums[i], nums[i + 1], nums[i + 2]})
    IN  0 - (nums[i + 1] - m)

\* the window whose sum is nearest to 100, the score deciding among equals
BestWindowClosest(nums) ==
    LET all == 1..(Len(nums) - 2)
        dist(i) == LET d == nums[i] + nums[i + 1] + nums[i + 2] - Float(100)
                   IN  IF d < 0 THEN 0 - d ELSE d
        near == {i \in all : \A j \in all : dist(i) <= dist(j)}
    IN  IF all = {} THEN 0
        ELSE MinOf({i \in near : \A j \in near : TripletScore(nums, j) <= TripletScore(nums, i)})

\* lines 804-822: the windows of three consecutive in-range percents whose
\* sum is close to 100; the first one of the best score fills what is None
BestWindow(nums) ==
    LET ok == {i \in 1..(Len(nums) - 2) : CloseTo100(nums[i] + nums[i + 1] + nums[i + 2])}
    IN  IF ok = {} THEN 0
        ELSE MinOf({i \in ok : \A j \in ok : TripletScore(nums, j) <= TripletScore(nums, i)})

SlidingTriplet(lines, r) ==
    LET all == FindPercents(Flatten(lines))
        nums == FloatsInRange(all)
        i == BestWindow(nums)
        best == AssignTriplet(SubSeq(nums, i, i + 2))
    IN  IF Len(all) >= 3 /\ i > 0
        THEN [l \in Labels |-> IF IsNone(r[l]) THEN best[l] ELSE r[l]]
        ELSE r

OcrStats(p, b, t, at) ==
    [player_percent |-> p, banker_percent |-> b, tie_percent |-> t,
     player_winning |-> PlayerWinning(p), timestamp |-> at,
     extraction_method |-> "ocr"]

\* lines 699-838, on the transcript the recognition returned
ParseTranscript(lines, at) ==
    LET r1 == OcrContext(lines, OcrLines(lines, NoValues))
        r2 == IF AnyNone(r1) THEN InlineTriplet(lines, r1) ELSE r1
        r3 == IF AnyNone(r2) THEN SlidingTriplet(lines, r2) ELSE r2
    IN  IF ~AnyNone(r3)
        THEN [stats |-> Some(OcrStats(r3["player"][1], r3["banker"][1], r3["tie"][1], at)),
              exit |-> "ocr", resolved |-> r3]
        ELSE [stats |-> None, exit |-> "unmatched", resolved |-> r3]

(***************************************************************************)
(* The renderings the driver can return.                                   *)
(***************************************************************************)
KN(l, v) == <<Kw(l), Pct(v)>>
NK(l, v) == <<Pct(v), Kw(l)>>

Doc(units) == [units |-> units, fails |-> {}]
Failing(units, what) == [units |-> units, fails |-> {what}]

PlayerValues == {50, 55, 150}
BankerValues == {30, 65}
TieValues == {4, 5, 30, 31}

Maybe(S) == {<<>>} \cup {<<x>> : x \in S}

\* one element per label, in the order shown on screen: player, tie, banker
LabelledUnits(p, t, b) ==
    (IF p = <<>> THEN <<>> ELSE <<KN("player", p[1])>>)
    \o (IF t = <<>> THEN <<>> ELSE <<KN("tie", t[1])>>)
    \o (IF b = <<>> THEN <<>> ELSE <<KN("banker", b[1])>>)

LabelledDocs ==
    {Doc(LabelledUnits(p, t, b)) :
        p \in Maybe(PlayerValues), t \in Maybe(TieValues), b \in Maybe(BankerValues)}

\* "PLAYER 70% TIE 5% BANKER 25%" in one element
InlineUnit == <<Kw("player"), Pct(70), Kw("tie"), Pct(5), Kw("banker"), Pct(25)>>

OtherDocs ==
    { Doc(<<InlineUnit>>),
      Doc(<<NK("player", 55)>>),
      Doc(<<<<Pct(55), Tag, Kw("player")>>, KN("banker", 30)>>),
      Doc(<<<<Kw("player"), Word, Pct(55)>>>>),
      Doc(<<<<Kw("player"), Pct(50), Pct(55)>>>>),
      Doc(<<KN("player", 55), KN("player", 50), KN("player", 50)>>),
      Doc(<<KN("player", 50), <<Pct(55)>>, KN("banker", 30)>>),
      Doc(<<<<Pct(30)>>, <<Pct(55)>>>>),
      Doc(<<KN("player", 150), <<Pct(30)>>>>),
      Doc(<<<<Kw("player"), Tag, Pct(150)>>>>),
      Failing(<<KN("player", 55), KN("banker", 30)>>, "source"),
      Failing(<<KN("player", 55), KN("banker", 30)>>, "script"),
      Failing(<<KN("player", 55), KN("banker", 30)>>, "elements") }

Docs == LabelledDocs \cup OtherDocs

\* what the page shows after driver.refresh(), or refresh() raising
ReloadDocs ==
    { Doc(<<>>), Doc(<<KN("player", 55)>>), Doc(<<KN("banker", 30)>>),
      Doc(<<KN("player", 50), KN("tie", 5), KN("banker", 30)>>),
      Failing(<<>>, "refresh") }

\* what an embedded sub-document shows, or switch_to.frame raising
FrameDocs ==
    { Doc(<<>>), Doc(<<KN("player", 50), KN("banker", 65)>>),
      Doc(<<KN("player", 55), KN("tie", 31), KN("banker", 30)>>),
      Failing(<<>>, "switch") }

OcrText(lines) == [kind |-> "text", lines |-> lines]

LabelledLines ==
    {LabelledUnits(<<p>>, <<t>>, <<30>>) : p \in {50, 55}, t \in {5, 31}}

OtherLines ==
    { <<InlineUnit>>,
      <<<<Pct(70), Pct(5), Pct(25)>>>>,
      <<<<Pct(50)>>, <<Pct(30)>>, <<Pct(25)>>, <<Pct(55)>>>>,
      <<<<Pct(50)>>, <<Pct(25)>>, <<Pct(25)>>, <<Pct(50)>>>>,
      <<KN("player", 50), <<Pct(30)>>, <<Pct(25)>>, <<Pct(55)>>>>,
      <<KN("player", 55)>>,
      <<KN("player", 55), KN("banker", 30)>>,
      <<KN("player", 150), KN("tie", 5), KN("banker", 30)>> }

\* what the screenshot collector meets: no OCR capability; a driver call
\* raising before the window is resized (lines 672-677); the capture, the
\* image decoding or the recognition raising; the recognition returning
\* None; or a transcript
OcrFailures ==
    {"unavailable", "error_before", "error_capture", "error_decode", "error_recognition"}

OcrOutcomes ==
    { [kind |-> k, lines |-> <<>>] : k \in OcrFailures \cup {"none"} }
    \cup {OcrText(ls) : ls \in LabelledLines \cup OtherLines}

MaxFrames == 1
MaxCycles == 2

BlankPage == [ocr |-> None, main |-> None, nframes |-> None, reloaded |-> None, frames |-> <<>>]

NoTrace == [stats |-> None, exit |-> "", candidates |-> NoCandidates,
            voted |-> NoValues, resolved |-> NoValues]

\* a piece of the rendering: what was read before, else any of S
Read(piece, S) == IF IsNone(piece) THEN S ELSE {piece[1]}

(***************************************************************************)
(* BacBoBot (src/bot.py) and the web controller (src/app_ui.py): their     *)
(* state after construction.                                               *)
(***************************************************************************)
PLAYER_WIN_THRESHOLD == 98
SCRAPE_INTERVAL == 5
alert_cooldown == 30
status_update_interval == 30
StatusDelta == 3

MaxBotCycles == 3
MaxBots == 2

\* BacBoBot.__init__
NewBot ==
    [last_stats |-> None, last_alert_time |-> 0, last_stats_sent |-> None, stop |-> FALSE,
     driver |-> "none"]

\* no iteration of the run loop yet
NoCycle == [n |-> 0, started |-> 0, outcome |-> "", ret |-> FALSE, dry |-> 0, ended |-> 0]

\* time.time() when run() is entered: later than alert_cooldown, as every
\* time of the epoch is
StartTimes == {40}

\* nothing handed to Telegram yet: the player value of the last status
\* notification sent, the one of the last run_once tried to send, the time
\* of the last entry alert sent, whether the last alert tried failed, and
\* the result of the shutdown message once run() has handed it over
NothingSent ==
    [status |-> None, attempt |-> None, alert |-> None, alertFailed |-> FALSE,
     shutdown |-> None]

\* an instance start_bot created, its thread not yet in run()
NewInstance ==
    [stop |-> FALSE, last_stats |-> None, loop |-> "new", driver |-> "none", using |-> {}]

\* _bot_instance = None, _bot_thread = None, no /status request in flight
NoUi == [instance |-> 0, thread |-> 0, reply |-> "", checked |-> FALSE]

Init ==
    /\ bot = NewBot
    /\ bpc = "init"
    /\ clock \in StartTimes
    /\ last_status_update = 0
    /\ cycle = NoCycle
    /\ log = <<>>
    /\ before = NothingSent
    /\ lastReading = None
    /\ bots = <<>>
    /\ ui = NoUi
    /\ pc = "idle"
    /\ driver = "none"
    /\ page = BlankPage
    /\ idx = 0
    /\ calls = <<>>
    /\ trace = NoTrace
    /\ result = None
    /\ by = ""
    /\ now = 0
    /\ prev = None

(***************************************************************************)
(* _extract_stats_from_screenshot: the outcome o of the capture and the    *)
(* recognition, then the parse of the transcript.                          *)
(***************************************************************************)
extract_stats_from_screenshot(o, t) ==
    IF o.kind = "text"
    THEN LET r == ParseTranscript(o.lines, t)
         IN  [stats |-> r.stats, exit |-> r.exit, candidates |-> NoCandidates,
              voted |-> NoValues, resolved |-> r.resolved]
    ELSE [NoTrace EXCEPT !.exit = o.kind]

\* if not OCR_AVAILABLE: return None
OcrAssumed(o) == TRUE

OcrAvailable(o) == o.kind # "unavailable"

\* the operations of lines 682-689 that complete, in order: the one that
\* raises ends the inner try
Captured(o) ==
    CASE o.kind = "error_capture" -> <<>>
      [] o.kind = "error_decode" -> <<"get_screenshot_as_png">>
      [] o.kind = "error_recognition" -> <<"get_screenshot_as_png", "image_open">>
      [] OTHER -> <<"get_screenshot_as_png", "image_open", "image_to_string">>

\* the inner try without its finally: the restore only where the block
\* runs to its end
ResizedNoFinally(o) ==
    <<"set_window_size">> \o Captured(o)
        \o (IF o.kind \in {"none", "text"} THEN <<"restore_window_size">> ELSE <<>>)

\* lines 677-845: the resize, the inner try, and the restore of its finally
Resized(o) == <<"set_window_size">> \o Captured(o) \o <<"restore_window_size">>

\* the driver and recognition operations of one run of the collector
ScreenshotCalls(o) ==
    IF ~OcrAvailable(o) \/ o.kind = "error_before" THEN <<>> ELSE Resized(o)

(***************************************************************************)
(* get_betting_statistics, one action per strategy.                        *)
(***************************************************************************)
\* a strategy whose record does not end the call
ReturnsLate(r, strategy, next) ==
    /\ trace' = r
    /\ pc' = next
    /\ IF ~IsNone(r.stats)
       THEN result' = r.stats /\ by' = strategy
       ELSE UNCHANGED <<result, by>>

\* a strategy that returns a record ends the call
Returns(r, strategy, next) ==
    /\ trace' = r
    /\ IF ~IsNone(r.stats)
       THEN /\ result' = r.stats
            /\ by' = strategy
            /\ pc' = "done"
       ELSE /\ UNCHANGED <<result, by>>
            /\ pc' = next

\* the call: start() when there is no driver yet; the page is the one of
\* the previous call or a new one
Call ==
    /\ pc \in {"idle", "done", "raised"}
    /\ now < MaxCycles
    /\ \E unchanged \in BOOLEAN :
        /\ unchanged => pc = "done"
        /\ page' = IF unchanged THEN page ELSE BlankPage
        /\ prev' = IF unchanged
                   THEN Some([stats |-> result, by |-> by, candidates |-> trace.candidates])
                   ELSE None
    /\ driver' = "open"
    /\ pc' = "ocr"
    /\ now' = now + 1
    /\ calls' = <<>>
    /\ result' = None
    /\ by' = ""
    /\ trace' = NoTrace
    /\ idx' = 0
    /\ UNCHANGED <<botVars, uiVars>>

\* start() raising: _setup_driver or driver.get fails outside the try
StartFails ==
    /\ pc \in {"idle", "raised"}
    /\ driver = "none"
    /\ now < MaxCycles
    /\ pc' = "raised"
    /\ now' = now + 1
    /\ UNCHANGED <<driver, page, idx, calls, trace, result, by, prev>>
    /\ UNCHANGED <<botVars, uiVars>>

Screenshot ==
    /\ pc = "ocr"
    /\ \E o \in Read(page.ocr, OcrOutcomes) :
        /\ page' = [page EXCEPT !.ocr = Some(o)]
        /\ calls' = calls \o <<"ocr">> \o ScreenshotCalls(o)
        /\ Returns(extract_stats_from_screenshot(o, now), "ocr", "main")
    /\ UNCHANGED <<driver, idx, now, prev>>
    /\ UNCHANGED <<botVars, uiVars>>

MainDocument ==
    /\ pc = "main"
    /\ \E d \in Read(page.main, Docs) :
        /\ page' = [page EXCEPT !.main = Some(d)]
        /\ calls' = Append(calls, "main")
        /\ Returns(extract_stats_from_context(d, None, now), "main", "frames")
    /\ UNCHANGED <<driver, idx, now, prev>>
    /\ UNCHANGED <<botVars, uiVars>>

\* iframes = find_elements(By.TAG_NAME, "iframe")
FindFrames ==
    /\ pc = "frames"
    /\ \E n \in Read(page.nframes, 0..MaxFrames) :
        /\ page' = [page EXCEPT !.nframes = Some(n)]
        /\ pc' = IF n = 0 THEN "refresh" ELSE "frame"
    /\ idx' = 1
    /\ UNCHANGED <<driver, calls, trace, result, by, now, prev>>
    /\ UNCHANGED <<botVars, uiVars>>

\* one visit of an iframe without the handlers: the switch back only where
\* nothing raised inside
FrameVisitUnhandled(inside, raised) ==
    <<"switch_to_frame">> \o inside \o (IF raised THEN <<>> ELSE <<"default_content">>)

\* one visit of an iframe: the switch, what runs inside, and the switch back
\* of the normal path (lines 1051, 1058, 1078, 1112, 1114) or of the
\* handler (lines 1079-1084, 1115-1119)
FrameVisit(inside, raised) == <<"switch_to_frame">> \o inside \o <<"default_content">>

\* the rendering of iframe i: the one read before, else any
FrameDoc(i) == IF i <= Len(page.frames) THEN {page.frames[i]} ELSE FrameDocs

\* first pass, one iframe: the switch, then the NameError of line 1043
\* (player_candidates is no name of get_betting_statistics), caught at
\* line 1079, and the switch back; the script scan of lines 1019-1025 ends
\* on the same NameError, caught at line 1037
FirstPassFrame ==
    /\ pc = "frame"
    /\ \E d \in FrameDoc(idx) :
        page' = IF idx <= Len(page.frames) THEN page
                ELSE [page EXCEPT !.frames = Append(@, d)]
    /\ calls' = calls \o FrameVisit(<<>>, TRUE)
    /\ idx' = idx + 1
    /\ pc' = IF idx + 1 > page.nframes[1] THEN "refresh" ELSE "frame"
    /\ UNCHANGED <<driver, trace, result, by, now, prev>>
    /\ UNCHANGED <<botVars, uiVars>>

\* driver.refresh() and the extraction on the reloaded page
Refresh ==
    /\ pc = "refresh"
    /\ \E d \in Read(page.reloaded, ReloadDocs) :
        /\ page' = [page EXCEPT !.reloaded = Some(d)]
        /\ IF "refresh" \in d.fails
           THEN /\ calls' = Append(calls, "refresh")
                /\ pc' = "frames2"
                /\ UNCHANGED <<trace, result, by>>
           ELSE /\ calls' = calls \o <<"refresh", "main">>
                /\ Returns(extract_stats_from_context(d, None, now), "refresh", "frames2")
    /\ idx' = 1
    /\ UNCHANGED <<driver, now, prev>>
    /\ UNCHANGED <<botVars, uiVars>>

\* second pass, one iframe
SecondPassFrame ==
    /\ pc = "frames2"
    /\ ~IsNone(page.nframes)
    /\ idx <= page.nframes[1]
    /\ \E d \in FrameDoc(idx) :
        /\ page' = IF idx <= Len(page.frames) THEN page
                   ELSE [page EXCEPT !.frames = Append(@, d)]
        /\ IF "switch" \in d.fails
           THEN /\ calls' = calls \o FrameVisit(<<>>, TRUE)
                /\ UNCHANGED <<trace, result, by, pc>>
           ELSE /\ calls' = calls \o FrameVisit(<<"frame">>, FALSE)
                /\ Returns(extract_stats_from_context(d, None, now), "frames2", "frames2")
    /\ idx' = idx + 1
    /\ UNCHANGED <<driver, now, prev>>
    /\ UNCHANGED <<botVars, uiVars>>

\* "Could not extract betting statistics after all attempts"
ReturnNone ==
    /\ pc = "frames2"
    /\ IsNone(page.nframes) \/ idx > page.nframes[1]
    /\ pc' = "done"
    /\ UNCHANGED <<driver, page, idx, calls, trace, result, by, now, prev>>
    /\ UNCHANGED <<botVars, uiVars>>

Next ==
    \/ Call
    \/ StartFails
    \/ Screenshot
    \/ MainDocument
    \/ FindFrames
    \/ FirstPassFrame
    \/ Refresh
    \/ SecondPassFrame
    \/ ReturnNone

Spec == Init /\ [][Next]_vars

(***************************************************************************)
(* BacBoBot.run_once and BacBoBot.run.  get_betting_statistics is the call *)
(* modelled above; here it returns None or the record the text/markup      *)
(* extraction builds from a document with a player and a banker value.     *)
(* run() has started the driver before the loop, so the call never raises. *)
(***************************************************************************)
Abs(x) == IF x < 0 THEN 0 - x ELSE x

ReadingPlayers == {50, 53, 98, 99}

\* the records of those documents, before their timestamp is set
Readings ==
    {extract_stats_from_context(Doc(<<KN("player", p), KN("banker", 100 - p)>>), None, 0).stats[1] :
        p \in ReadingPlayers}

\* what get_betting_statistics returns at time at
Outcomes(at) ==
    {[kind |-> "none", stats |-> None]}
    \cup {[kind |-> "stats", stats |-> Some([r EXCEPT !.timestamp = at])] : r \in Readings}

\* the seconds one get_betting_statistics call takes: time.sleep(10) and more
ScrapeTimes == {10, 25}

\* send_entry_alert: red for the player when player_percent > 50, else blue
AlertColor(player_percent) == IF player_percent > Float(50) THEN "red" ELSE "blue"

\* a status notification or an entry alert handed to Telegram, and whether
\* the send succeeded
Message(kind, from, stats, ok, at) ==
    [kind |-> kind, from |-> from, player |-> stats.player_percent, ok |-> ok, at |-> at,
     color |-> IF kind = "alert" THEN AlertColor(stats.player_percent) ELSE ""]

\* the messages lg, in order, folded into the summary bf
RECURSIVE Summary(_, _)
Summary(bf, lg) ==
    IF lg = <<>> THEN bf
    ELSE LET m == Head(lg)
             next ==
                 CASE m.kind = "status" ->
                        [bf EXCEPT !.status = IF m.ok THEN Some(m.player) ELSE @,
                                   !.attempt = IF m.from = "run_once" THEN Some(m.player) ELSE @]
                   [] m.kind = "alert" ->
                        [bf EXCEPT !.alert = IF m.ok THEN Some(m.at) ELSE @,
                                   !.alertFailed = ~m.ok]
         IN  Summary(next, Tail(lg))

\* a change of at least 3 points
should_send_update_from_delta(stats, last_stats_sent) ==
    \/ IsNone(last_stats_sent)
    \/ Abs(stats.player_percent - last_stats_sent[1].player_percent) >= Float(StatusDelta)

\* bot.py lines 98-102
should_send_update(stats, last_stats_sent) ==
    \/ IsNone(last_stats_sent)
    \/ Abs(stats.player_percent - last_stats_sent[1].player_percent) > Float(StatusDelta)

\* a threshold that is reached, not exceeded
should_send_alert_from_threshold(stats, at, last_alert_time) ==
    /\ stats.player_percent >= Float(PLAYER_WIN_THRESHOLD)
    /\ at - last_alert_time > alert_cooldown

\* the threshold alone
should_send_alert_no_cooldown(stats, at, last_alert_time) ==
    stats.player_percent > Float(PLAYER_WIN_THRESHOLD)

\* BacBoBot._should_send_alert, at = time.time()
should_send_alert(stats, at, last_alert_time) ==
    /\ stats.player_percent > Float(PLAYER_WIN_THRESHOLD)
    /\ at - last_alert_time > alert_cooldown

\* lines 104-106: last_stats_sent is set whatever send_status_update returns
StatusUpdate(b, stats) ==
    IF should_send_update(stats, b.last_stats_sent)
    THEN [b EXCEPT !.last_stats_sent = Some(stats)]
    ELSE b

\* lines 121-125: the alert was sent
AlertSent(b, stats, at) == [b EXCEPT !.last_alert_time = at, !.last_stats = Some(stats)]

\* a cycle without a sent alert that forgets its reading
NoAlertKeeps(b, stats) == b

\* lines 126-133: no alert, or the send failed or raised
NoAlert(b, stats) == [b EXCEPT !.last_stats = Some(stats)]

\* run_once on the outcome o of get_betting_statistics, at time at; sOk and
\* aOk say whether Telegram takes the status notification and the alert
run_once(b, o, at, sOk, aOk) ==
    IF o.kind = "none"
    THEN [bot |-> b, ret |-> FALSE, sent |-> <<>>]
    ELSE LET stats == o.stats[1]
             update == should_send_update(stats, b.last_stats_sent)
             alert == should_send_alert(stats, at, b.last_alert_time)
             b1 == StatusUpdate(b, stats)
         IN  [bot |-> IF alert /\ aOk THEN AlertSent(b1, stats, at) ELSE NoAlert(b1, stats),
              ret |-> TRUE,
              sent |-> (IF update THEN <<Message("status", "run_once", stats, sOk, at)>>
                        ELSE <<>>)
                       \o (IF alert THEN <<Message("alert", "run_once", stats, aOk, at)>>
                           ELSE <<>>)]

\* a loop that never looks at the stop flag
LoopForever(b, c) == TRUE

\* a loop that goes on only after a cycle with a result
LoopWhileResults(b, c) == ~b.stop /\ (c.n > 0 => c.ret)

\* while not self._stop
LoopContinues(b, c) == ~b.stop

\* BacBoBot.stop
BotStop(b) == [b EXCEPT !.stop = TRUE]

\* BacBoScraper.close: if self.driver: self.driver.quit(); self.driver = None
scraper_close(b) == [b EXCEPT !.driver = "none"]

\* BacBoBot.status
status(b) == [running |-> ~b.stop, last_stats |-> b.last_stats]

\* run() up to the loop: without a Telegram bot it returns at once; when
\* scraper.start() raises, in _setup_driver (no driver yet) or in
\* driver.get (the driver of line 82 is open), it returns at line 177; else
\* the first test of the loop
RunStart ==
    /\ bpc = "init"
    /\ \E how \in {"running", "no_telegram", "no_driver", "no_page"} :
        /\ bot' = [bot EXCEPT !.driver = IF how \in {"running", "no_page"} THEN "open"
                                         ELSE "none"]
        /\ bpc' = IF how # "running" THEN "returned"
                  ELSE IF LoopContinues(bot, cycle) THEN "cycle" ELSE "shutdown"
    /\ UNCHANGED <<clock, last_status_update, cycle, log, before, lastReading>>
    /\ UNCHANGED <<scraperVars, uiVars>>

\* lines 189-193: current_time = time.time(); self.run_once()
RunOnce ==
    /\ bpc = "cycle"
    /\ cycle.n < MaxBotCycles
    /\ \E d \in ScrapeTimes :
        \E o \in Outcomes(clock + d), sOk \in BOOLEAN, aOk \in BOOLEAN :
          LET r == run_once(bot, o, clock + d, sOk, aOk)
          IN  /\ bot' = [r.bot EXCEPT !.stop = bot.stop]
              /\ clock' = clock + d
              /\ cycle' = [n |-> cycle.n + 1, started |-> clock, outcome |-> o.kind,
                           ret |-> r.ret,
                           dry |-> IF o.kind = "none" THEN cycle.dry + 1 ELSE 0,
                           ended |-> 0]
              /\ log' = r.sent
              /\ before' = Summary(before, log)
              /\ lastReading' = IF o.kind = "none" THEN lastReading ELSE o.stats
    /\ bpc' = "periodic"
    /\ UNCHANGED last_status_update
    /\ UNCHANGED <<scraperVars, uiVars>>

\* lines 195-205: the periodic status update, with last_stats
Periodic ==
    /\ bpc = "periodic"
    /\ IF cycle.started - last_status_update >= status_update_interval
       THEN /\ last_status_update' = cycle.started
            /\ \E ok \in BOOLEAN :
                  log' = IF IsNone(bot.last_stats) THEN log
                         ELSE Append(log, Message("status", "periodic", bot.last_stats[1],
                                                  ok, clock))
       ELSE UNCHANGED <<last_status_update, log>>
    /\ cycle' = [cycle EXCEPT !.ended = clock]
    /\ bpc' = "sleep"
    /\ UNCHANGED <<bot, clock, before, lastReading>>
    /\ UNCHANGED <<scraperVars, uiVars>>

\* line 207 and the next test of the loop
Sleep ==
    /\ bpc = "sleep"
    /\ clock' = clock + SCRAPE_INTERVAL
    /\ bpc' = IF LoopContinues(bot, cycle) THEN "cycle" ELSE "shutdown"
    /\ UNCHANGED <<bot, last_status_update, cycle, log, before, lastReading>>
    /\ UNCHANGED <<scraperVars, uiVars>>

\* another thread calls stop(); where the stop finds the loop at its head,
\* the cycle that follows is one of the MaxBotCycles cycles
StopRequest ==
    /\ bpc \notin {"ended", "returned"}
    /\ ~bot.stop
    /\ bpc = "cycle" => cycle.n < MaxBotCycles
    /\ bot' = BotStop(bot)
    /\ UNCHANGED <<bpc, clock, last_status_update, cycle, log, before, lastReading>>
    /\ UNCHANGED <<scraperVars, uiVars>>

\* the finally of run(): the shutdown message and scraper.close()
Shutdown ==
    /\ bpc = "shutdown"
    /\ \E ok \in BOOLEAN : before' = [before EXCEPT !.shutdown = Some(ok)]
    /\ bot' = scraper_close(bot)
    /\ bpc' = "ended"
    /\ UNCHANGED <<clock, last_status_update, cycle, log, lastReading>>
    /\ UNCHANGED <<scraperVars, uiVars>>

BotNext ==
    \/ RunStart
    \/ RunOnce
    \/ Periodic
    \/ Sleep
    \/ StopRequest
    \/ Shutdown

BotSpec == Init /\ [][BotNext]_vars

\* the thread of run() keeps running, and every extraction call and every
\* Telegram send returns; nothing obliges anyone to call stop()
BotFairSpec ==
    /\ BotSpec
    /\ WF_vars(RunOnce) /\ WF_vars(Periodic) /\ WF_vars(Sleep) /\ WF_vars(Shutdown)

(***************************************************************************)
(* The web controller (src/app_ui.py): its handlers, and the thread each   *)
(* BacBoBot instance runs run() in.  An instance is a record of its _stop  *)
(* flag, the position of its thread, its scraper's driver, and the threads *)
(* that are inside an operation on that driver.                            *)
(***************************************************************************)
Instances == 1..Len(bots)

\* _bot_thread.is_alive()
IsAlive(i) == bots[i].loop \notin {"returned", "ended"}

\* a stop that also closes the scraper of the instance
stop_bot_closing(b) == [BotStop(b) EXCEPT !.driver = "none"]

\* stop_bot on _bot_instance: the Telegram message and _bot_instance.stop()
stop_bot(b) == BotStop(b)

\* POST /start
StartBot ==
    /\ IF ui.thread # 0 /\ IsAlive(ui.thread)
       THEN /\ ui' = [ui EXCEPT !.reply = "Bot already running"]
            /\ UNCHANGED bots
       ELSE /\ Len(bots) < MaxBots
            /\ bots' = Append(bots, NewInstance)
            /\ ui' = [ui EXCEPT !.instance = Len(bots) + 1, !.thread = Len(bots) + 1,
                                !.reply = "Bot starting..."]
    /\ UNCHANGED <<scraperVars, botVars>>

\* POST /stop
StopBot ==
    /\ IF ui.instance = 0
       THEN /\ ui' = [ui EXCEPT !.reply = "Bot not running"]
            /\ UNCHANGED bots
       ELSE /\ bots' = [bots EXCEPT ![ui.instance] = stop_bot(@)]
            /\ ui' = [ui EXCEPT !.instance = 0, !.thread = 0, !.reply = "Bot stopping..."]
    /\ UNCHANGED <<scraperVars, botVars>>

\* what line 146 does with the _bot_instance it reads: status() of None
\* raises AttributeError and the request ends in an error
StatusReply(instance) ==
    IF instance = 0 THEN "error"
    ELSE IF status(bots[instance]).running THEN "running"
    ELSE "stopped"

\* GET /status, line 144: the test of _bot_instance, without the lock
StatusCheck ==
    /\ ~ui.checked
    /\ ui' = IF ui.instance = 0 THEN [ui EXCEPT !.reply = "not running"]
             ELSE [ui EXCEPT !.checked = TRUE]
    /\ UNCHANGED bots
    /\ UNCHANGED <<scraperVars, botVars>>

\* GET /status, line 146: _bot_instance is read again, without the lock
StatusCall ==
    /\ ui.checked
    /\ ui' = [ui EXCEPT !.checked = FALSE, !.reply = StatusReply(ui.instance)]
    /\ UNCHANGED bots
    /\ UNCHANGED <<scraperVars, botVars>>

\* run() enters scraper.start()
ScraperStarts(i) ==
    /\ bots[i].loop = "new"
    /\ bots' = [bots EXCEPT ![i].loop = "starting", ![i].using = @ \cup {"run"}]
    /\ UNCHANGED ui
    /\ UNCHANGED <<scraperVars, botVars>>

\* scraper.start() returns, and the first test of the loop; or it raises
\* and run() returns, with or without a driver set up
ScraperStarted(i) ==
    /\ bots[i].loop = "starting"
    /\ \E how \in {"running", "no_driver", "no_page"} :
          bots' = [bots EXCEPT
                     ![i].using = @ \ {"run"},
                     ![i].driver = IF how = "no_driver" THEN "none" ELSE "open",
                     ![i].loop = IF how # "running" THEN "returned"
                                 ELSE IF LoopContinues(bots[i], cycle) THEN "ready"
                                 ELSE "closing"]
    /\ UNCHANGED ui
    /\ UNCHANGED <<scraperVars, botVars>>

\* run_once enters get_betting_statistics
CallBegins(i) ==
    /\ bots[i].loop = "ready"
    /\ bots' = [bots EXCEPT ![i].loop = "call", ![i].using = @ \cup {"run"}]
    /\ UNCHANGED ui
    /\ UNCHANGED <<scraperVars, botVars>>

\* get_betting_statistics returns; the rest of the iteration up to the sleep
CallReturns(i) ==
    /\ bots[i].loop = "call"
    /\ bots' = [bots EXCEPT ![i].loop = "sleep", ![i].using = @ \ {"run"}]
    /\ UNCHANGED ui
    /\ UNCHANGED <<scraperVars, botVars>>

\* time.sleep(SCRAPE_INTERVAL) ends, and the next test of the loop
SleepEnds(i) ==
    /\ bots[i].loop = "sleep"
    /\ bots' = [bots EXCEPT ![i].loop = IF LoopContinues(bots[i], cycle) THEN "ready"
                                         ELSE "closing"]
    /\ UNCHANGED ui
    /\ UNCHANGED <<scraperVars, botVars>>

\* the finally of run(): scraper.close()
ScraperCloses(i) ==
    /\ bots[i].loop = "closing"
    /\ bots' = [bots EXCEPT ![i].loop = "ended", ![i].driver = "none"]
    /\ UNCHANGED ui
    /\ UNCHANGED <<scraperVars, botVars>>

UiNext ==
    \/ StartBot
    \/ StopBot
    \/ StatusCheck
    \/ StatusCall
    \/ \E i \in Instances : ScraperStarts(i)
    \/ \E i \in Instances : ScraperStarted(i)
    \/ \E i \in Instances : CallBegins(i)
    \/ \E i \in Instances : CallReturns(i)
    \/ \E i \in Instances : SleepEnds(i)
    \/ \E i \in Instances : ScraperCloses(i)

UiSpec == Init /\ [][UiNext]_vars

(***************************************************************************)
(* Properties.                                                             *)
(***************************************************************************)
\* the collector that ran last was _extract_stats_from_context
FromContext == trace.exit \in {"observed", "calculated", "estimated", "none"}

Resolved(l) == ~IsNone(trace.resolved[l])
Voted(l) == ~IsNone(trace.voted[l])

\* C1: when the player value is the only one any tier of the text/markup
\* path resolves, the extraction returns None: no record is built from one
\* known value.
C1_NoSingleValueRecord ==
    (FromContext /\ Resolved("player") /\ ~Resolved("banker") /\ ~Resolved("tie"))
        => IsNone(trace.stats)

\* C2: in the text/markup path, with all three labels resolved from
\* candidates, a record with those three values is emitted exactly when
\* their sum is in [85,110]; outside the band the extraction returns None.
C2_BandDecides ==
    (FromContext /\ Voted("player") /\ Voted("banker") /\ Voted("tie")) =>
        LET p == trace.voted["player"][1]
            b == trace.voted["banker"][1]
            t == trace.voted["tie"][1]
        IN  IF Float(85) <= p + b + t /\ p + b + t <= Float(110)
            THEN /\ ~IsNone(trace.stats)
                 /\ trace.stats[1].player_percent = p
                 /\ trace.stats[1].banker_percent = b
                 /\ trace.stats[1].tie_percent = t
            ELSE IsNone(trace.stats)

\* the call has returned a record
Returned == pc = "done" /\ ~IsNone(result)

StatsSum(r) == r.player_percent + r.banker_percent + r.tie_percent

\* C3: every returned record whose three values were all read from the page
\* (the observed triple of the text path, and every record of the screenshot
\* collector) has a sum in [85,110].
C3_ObservedSumInBand ==
    (Returned /\ trace.exit \in {"observed", "ocr"}) =>
        (Float(85) <= StatsSum(result[1]) /\ StatsSum(result[1]) <= Float(110))

\* C4: in the text/markup path, with player = A and banker = B resolved
\* (both in 0..100) and tie unresolved, the record emitted has A and B
\* unchanged and tie = max(0, 100 - A - B).
C4_TieIsRemainder ==
    (FromContext /\ Resolved("player") /\ Resolved("banker") /\ ~Resolved("tie")
       /\ InRange(trace.resolved["player"][1]) /\ InRange(trace.resolved["banker"][1])) =>
        LET a == trace.resolved["player"][1]
            b == trace.resolved["banker"][1]
        IN  /\ ~IsNone(trace.stats)
            /\ trace.stats[1].player_percent = a
            /\ trace.stats[1].banker_percent = b
            /\ trace.stats[1].tie_percent = MaxOf({0, Float(100) - a - b})

\* C4 witness: the remainder is negative and the record carries tie = 0
C4_Witness ==
    /\ FromContext /\ Resolved("player") /\ Resolved("banker") /\ ~Resolved("tie")
    /\ trace.resolved["player"][1] + trace.resolved["banker"][1] > Float(100)
    /\ InRange(trace.resolved["player"][1]) /\ InRange(trace.resolved["banker"][1])
    /\ ~IsNone(trace.stats)
    /\ trace.stats[1].tie_percent = 0

C6_VoteSelects ==
    FromContext => \A l \in Labels :
        LET c == trace.candidates[l]
        IN  c # <<>> =>
              /\ Voted(l)
              /\ trace.voted[l][1] \in Range(c)
              /\ \A w \in Range(c) : Count(c, w) <= Count(c, trace.voted[l][1])
              /\ \A w \in Range(c) :
                    Count(c, w) = Count(c, trace.voted[l][1]) => w <= trace.voted[l][1]
              /\ (Cardinality(Range(c)) = 1 => Range(c) = {trace.voted[l][1]})

\* C6 witness: two values share the highest count and the larger is selected
C6_Witness ==
    /\ FromContext
    /\ \E l \in Labels : \E w \in Range(trace.candidates[l]) :
          /\ w < trace.voted[l][1]
          /\ Count(trace.candidates[l], w) = Count(trace.candidates[l], trace.voted[l][1])

\* the main document is the one element "PLAYER 70% TIE 5% BANKER 25%" and
\* the text/markup extraction has just run on it
InlineExtracted ==
    /\ FromContext
    /\ calls # <<>> /\ calls[Len(calls)] = "main"
    /\ page.main = Some(Doc(<<InlineUnit>>))
    /\ IsNone(page.reloaded)

\* C7: on that element the collectors and the vote give player = 70,
\* tie = 5, banker = 25, and the observed triple is returned without a
\* fallback tier.
C7_InlineLabels ==
    InlineExtracted =>
        /\ trace.voted["player"] = Some(Float(70))
        /\ trace.voted["tie"] = Some(Float(5))
        /\ trace.voted["banker"] = Some(Float(25))
        /\ trace.exit = "observed"

\* C8: in every record any path emits, player_winning is true exactly when
\* player_percent > 50.
C8_WinningIffAboveHalf ==
    /\ ~IsNone(trace.stats) =>
          (trace.stats[1].player_winning <=> trace.stats[1].player_percent > Float(50))
    /\ ~IsNone(result) =>
          (result[1].player_winning <=> result[1].player_percent > Float(50))

\* C8 witness: a returned record with player exactly 50 and the flag false
C8_Witness ==
    Returned /\ result[1].player_percent = Float(50) /\ ~result[1].player_winning

\* equal in every field except timestamp, or both None
SameButTimestamp(x, y) ==
    \/ IsNone(x) /\ IsNone(y)
    \/ /\ ~IsNone(x) /\ ~IsNone(y)
       /\ DOMAIN x[1] = DOMAIN y[1]
       /\ \A f \in DOMAIN x[1] \ {"timestamp"} : x[1][f] = y[1][f]

Rank(i) ==
    LET refreshed == \E j \in 1..(i - 1) : calls[j] = "refresh"
    IN  CASE calls[i] = "ocr" -> 1
          [] calls[i] \in {"set_window_size", "get_screenshot_as_png", "image_open",
                          "image_to_string", "restore_window_size"} -> 1
          [] calls[i] = "main" -> IF refreshed THEN 4 ELSE 2
          [] calls[i] = "refresh" -> 4
          [] calls[i] = "frame" -> 5
          [] OTHER -> IF refreshed THEN 5 ELSE 3

StrategyRank(s) ==
    CASE s = "ocr" -> 1 [] s = "main" -> 2 [] s = "refresh" -> 4 [] s = "frames2" -> 5

\* C10: the strategies run in the order screenshot, main document,
\* sub-documents, refresh and retry, sub-documents again; the call returns
\* the record of the first strategy that produces one, and nothing of a
\* later strategy (no frame switch, no refresh) has run by then.
C10_OrderAndShortCircuit ==
    /\ \A i, j \in 1..Len(calls) : i < j => Rank(i) <= Rank(j)
    /\ (calls # <<>> => calls[1] = "ocr")
    /\ ~IsNone(result) =>
          /\ pc = "done"
          /\ result = trace.stats
          /\ \A i \in 1..Len(calls) : Rank(i) <= StrategyRank(by)
          /\ (by \in {"ocr", "main"} =>
                \A i \in 1..Len(calls) : calls[i] \notin {"switch_to_frame", "refresh"})
    /\ (pc \notin {"idle", "raised", "ocr", "done"} => IsNone(trace.stats))

\* C10 witness: every earlier strategy failed and the retry after the
\* refresh returned the record
C10_Witness ==
    /\ Returned /\ by = "refresh"
    /\ \E i, j, k \in 1..Len(calls) :
          /\ i < j /\ j < k
          /\ calls[i] = "main" /\ calls[j] = "switch_to_frame" /\ calls[k] = "refresh"

\* the screenshot collector has run in this call, on the outcome page.ocr
ScreenshotRan == ~IsNone(page.ocr) /\ calls # <<>> /\ calls[1] = "ocr"

\* C11: whenever the screenshot collector has resized the window to the full
\* page size, it requests the restoration of the original size before it
\* returns: with a record, with no match, with the recognition returning
\* None, and when the capture, the decoding or the recognition raises.
C11_RestoreOnEveryExit ==
    /\ \A i \in 1..Len(calls) :
          calls[i] = "set_window_size" =>
              \E j \in (i + 1)..Len(calls) :
                  /\ calls[j] = "restore_window_size"
                  /\ \A k \in (i + 1)..(j - 1) : Rank(k) = 1
    /\ (ScreenshotRan /\ page.ocr[1].kind \notin {"unavailable", "error_before"}) =>
          \E i \in 1..Len(calls) : calls[i] = "set_window_size"

\* C11 witness: the recognition raised after the resize and the capture,
\* and the restoration was requested
C11_Witness ==
    /\ ScreenshotRan /\ page.ocr[1].kind = "error_recognition"
    /\ \E i, j \in 1..Len(calls) :
          i < j /\ calls[i] = "get_screenshot_as_png" /\ calls[j] = "restore_window_size"

\* C12: without the OCR capability the screenshot collector returns None
\* and neither resizes the window nor takes a screenshot; and whatever step
\* of the collector fails, the call does not end there: the text/markup
\* extraction of the main document is what runs next.
C12_OcrFailureFallsThrough ==
    /\ (ScreenshotRan /\ page.ocr[1].kind = "unavailable") =>
          /\ \A i \in 1..Len(calls) :
                calls[i] \notin {"set_window_size", "get_screenshot_as_png"}
          /\ by # "ocr"
    /\ (ScreenshotRan /\ page.ocr[1].kind \in OcrFailures) =>
          /\ pc # "raised"
          /\ by # "ocr"
          /\ IF Len(calls) = 1 THEN pc = "main" ELSE calls[2] = "main" \/ Rank(2) = 1
          /\ (pc # "main" => \E i \in 1..Len(calls) : calls[i] = "main")

\* C12 witness: no OCR capability, and the main document gave the record
C12_Witness ==
    /\ ScreenshotRan /\ page.ocr[1].kind = "unavailable"
    /\ Returned /\ by = "main"

\* C13: get_betting_statistics ends with a record or with None and never
\* with an exception, also when there is no driver yet and start() fails.
C13_NeverRaises == pc # "raised"

\* the collector that ran last was _extract_stats_from_screenshot, on a
\* transcript
FromTranscript == trace.exit \in {"ocr", "unmatched"}

\* C19: the estimate banker = (100 - player) * 0.6, tie = the rest, is made
\* by the screenshot collector when the player value is all it has, and
\* never by the text/markup path.
C19_EstimateOnlyFromScreenshot ==
    /\ FromContext => trace.exit # "estimated"
    /\ (FromTranscript /\ Resolved("player") /\ ~Resolved("banker") /\ ~Resolved("tie")) =>
          /\ ~IsNone(trace.stats)
          /\ trace.stats[1].banker_percent = EstimatedBanker(trace.resolved["player"][1])

\* the transcript the screenshot collector parsed, and what its line,
\* context and one-line passes had resolved when the last fallback began
Transcript == page.ocr[1].lines

BeforeSliding ==
    LET r1 == OcrContext(Transcript, OcrLines(Transcript, NoValues))
    IN  IF AnyNone(r1) THEN InlineTriplet(Transcript, r1) ELSE r1

WindowNums == FloatsInRange(FindPercents(Flatten(Transcript)))

Windows == 1..(Len(WindowNums) - 2)

WindowSum(i) == WindowNums[i] + WindowNums[i + 1] + WindowNums[i + 2]

\* |sum - 100|
WindowDistance(i) ==
    IF WindowSum(i) < Float(100) THEN Float(100) - WindowSum(i) ELSE WindowSum(i) - Float(100)

\* middle value minus the window's minimum
WindowMiddle(i) ==
    WindowNums[i + 1] - MinOf({WindowNums[i], WindowNums[i + 1], WindowNums[i + 2]})

\* the last fallback ran on the transcript
SlidingRan ==
    /\ FromTranscript /\ ScreenshotRan /\ page.ocr[1].kind = "text"
    /\ AnyNone(BeforeSliding)
    /\ Len(FindPercents(Flatten(Transcript))) >= 3
    /\ Windows # {}

\* C20 as stated: the window chosen is the one whose sum is closest to 100,
\* the one with the middle value closest to the minimum among equals, and
\* its numbers become player, tie, banker in that order.
C20_ClosestTo100 ==
    SlidingRan =>
        \E i \in Windows :
            /\ \A j \in Windows : WindowDistance(i) <= WindowDistance(j)
            /\ \A j \in Windows :
                  WindowDistance(i) = WindowDistance(j) => WindowMiddle(i) <= WindowMiddle(j)
            /\ trace.resolved["player"] = Some(WindowNums[i])
            /\ trace.resolved["tie"] = Some(WindowNums[i + 1])
            /\ trace.resolved["banker"] = Some(WindowNums[i + 2])

\* C20 as amended: only the windows whose sum is in [90,110] are eligible;
\* the one chosen is the first whose middle value is closest to its minimum,
\* whatever its distance to 100; its numbers, in the order player, tie,
\* banker, fill the labels that were still unresolved and leave the others;
\* with no eligible window nothing is filled.
C20_FirstBestMiddleInBand ==
    SlidingRan =>
        LET ok == {i \in Windows :
                      Float(TripletLow) <= WindowSum(i) /\ WindowSum(i) <= Float(TripletHigh)}
        IN  IF ok = {} THEN trace.resolved = BeforeSliding
            ELSE \E i \in ok :
                    /\ \A j \in ok : WindowMiddle(i) <= WindowMiddle(j)
                    /\ \A j \in ok : j < i => WindowMiddle(i) < WindowMiddle(j)
                    /\ \A l \in Labels :
                          trace.resolved[l] =
                              IF ~IsNone(BeforeSliding[l]) THEN BeforeSliding[l]
                              ELSE Some(WindowNums[CASE l = "player" -> i
                                                     [] l = "tie" -> i + 1
                                                     [] l = "banker" -> i + 2])

\* C20 witness: two eligible windows, the one chosen further from 100 than
\* the other, and the player value of an earlier pass kept
C20_Witness ==
    /\ SlidingRan
    /\ ~IsNone(BeforeSliding["player"])
    /\ \E i, j \in Windows :
          /\ WindowDistance(j) < WindowDistance(i)
          /\ WindowSum(j) <= Float(TripletHigh)
          /\ trace.resolved["tie"] = Some(WindowNums[i + 1])
          /\ trace.resolved["banker"] = Some(WindowNums[i + 2])
          /\ trace.resolved["player"] = BeforeSliding["player"]

\* the last iteration of the run loop had no result
NoResultCycle == cycle.n > 0 /\ cycle.outcome = "none"

\* C14: a cycle whose extraction yields no result makes run_once return
\* False without raising and sends no entry alert; the run loop then starts
\* the next cycle SCRAPE_INTERVAL seconds later unless a stop was requested,
\* however many cycles in a row had no result.
C14_NoResultCycleGoesOn ==
    NoResultCycle =>
        /\ ~cycle.ret
        /\ \A i \in 1..Len(log) : log[i].kind # "alert"
        /\ bpc # "returned"
        /\ (bpc \in {"shutdown", "ended"} => bot.stop)
        /\ (bpc = "cycle" => clock = cycle.ended + SCRAPE_INTERVAL)
        /\ (bpc = "cycle" /\ cycle.n < MaxBotCycles => ENABLED RunOnce)

\* C14 witness: two cycles in a row without a result, and the loop is at
\* the start of the third
C14_Witness == NoResultCycle /\ cycle.dry = 2 /\ bpc = "cycle" /\ ~bot.stop

\* the status notifications run_once handed to Telegram in this iteration
RunOnceStatus == {i \in 1..Len(log) : log[i].kind = "status" /\ log[i].from = "run_once"}

Alerts == {i \in 1..Len(log) : log[i].kind = "alert"}

\* C17: more than alert_cooldown (30) seconds lie between two entry alerts
\* sent successfully; a failed send does not start the cooldown: the next
\* cycle whose reading is above the threshold tries the alert again.
C17_AlertCooldown ==
    /\ \A i \in Alerts :
          (log[i].ok /\ ~IsNone(before.alert)) => log[i].at - before.alert[1] > 30
    /\ Cardinality({i \in Alerts : log[i].ok}) <= 1
    /\ (cycle.n > 0 /\ cycle.outcome = "stats" /\ before.alertFailed
          /\ lastReading[1].player_percent > Float(PLAYER_WIN_THRESHOLD)) =>
          Alerts # {}

\* C17 witness: a second entry alert is sent, after one sent before
C17_Witness ==
    /\ ~IsNone(before.alert)
    /\ \E i \in Alerts : log[i].ok

\* C18: last_stats, which status() reports as it is, is the record of the
\* most recent cycle that had a result, and empty when no cycle had one; a
\* cycle without a result leaves it as it was.
C18_LastStatsIsLastReading ==
    /\ bot.last_stats = lastReading
    /\ status(bot).last_stats = lastReading
    /\ (cycle.n = 0 => IsNone(bot.last_stats))

\* C18 witness: a cycle without a result after one with a result whose
\* entry alert failed; the record of the earlier cycle is still reported
C18_Witness ==
    /\ NoResultCycle /\ cycle.n > 1
    /\ ~IsNone(status(bot).last_stats)
    /\ before.alertFailed

\* C15: on each scraper's driver at most one operation is in flight: while
\* the get_betting_statistics call of an instance has not returned, its run
\* loop starts no other cycle, and no other thread (the /start, /stop and
\* /status handlers, the shutdown path) uses or closes that driver.
C15_OneCallPerSession ==
    \A i \in Instances :
        /\ Cardinality(bots[i].using) <= 1
        /\ bots[i].loop \in {"starting", "call"} <=> bots[i].using = {"run"}
        /\ bots[i].loop = "call" => bots[i].driver = "open"

\* C15 witness: /stop arrives while the call of an instance is in flight,
\* and /start has created the next instance
C15_Witness ==
    \E i, j \in Instances :
        /\ i # j
        /\ bots[i].loop = "call" /\ bots[i].stop
        /\ ui.instance = j

(***************************************************************************)
(* The sub-document passes, the candidate lists and the value ranges.      *)
(***************************************************************************)
\* the page refresh has been requested in this call
Refreshed == \E k \in 1..Len(calls) : calls[k] = "refresh"

\* what the collector pipeline yields on a sub-document entered afresh
FrameRecord(i) == extract_stats_from_context(page.frames[i], None, now).stats

\* C21: the first sub-document pass returns the record of the first
\* sub-document whose evidence is complete before any refresh, so the page
\* is refreshed only when no sub-document visited by the first pass yields a
\* record.
C21_FirstPassReturns ==
    Refreshed => \A i \in 1..Len(page.frames) : IsNone(FrameRecord(i))

\* the collector that ran last is the one of the main document, before any
\* refresh, and none of its driver calls raised
MainCollected ==
    /\ pc \in {"frames", "done"}
    /\ calls # <<>> /\ calls[Len(calls)] = "main"
    /\ ~Refreshed
    /\ page.main[1].fails = {}

MainSource == PageSource(page.main[1].units)

\* the candidates of the script loop, the element loop and the markup
\* patterns, before the window scan
DirectCandidates ==
    LET texts == VisibleTexts(page.main[1].units)
    IN  ClassifySource(MainSource, ClassifyTexts(texts, ClassifyTexts(texts, NoCandidates)))

\* the in-range percent occurrences the window scan classifies as l with
\* value v
ScanOccurrences(l, v) ==
    IF ContextLabel(MainSource) = l
    THEN Count(FloatsInRange(FindPercents(MainSource)), v)
    ELSE 0

\* C22: every classified in-range occurrence found by any step appends one
\* candidate, duplicates included: the multiplicity of a value in a label's
\* list is the number of its classified occurrences, those of the window
\* scan included.
C22_EveryOccurrenceCounts ==
    MainCollected =>
        \A l \in Labels : \A v \in Range(FloatsInRange(FindPercents(MainSource))) :
            Count(trace.candidates[l], v)
                = Count(DirectCandidates[l], v) + ScanOccurrences(l, v)

\* C23: every returned record has player, banker and tie within [0,100].
C23_ValuesInRange ==
    Returned =>
        \A f \in {"player_percent", "banker_percent", "tie_percent"} :
            0 <= result[1][f] /\ result[1][f] <= Float(100)

\* C30: when get_betting_statistics returns, every switch into a frame is
\* followed by a switch back to the default content before the next switch
\* into a frame and before the return, also where the visit ended on an
\* exception.
C30_BackToDefaultContent ==
    pc = "done" =>
        \A i \in 1..Len(calls) : calls[i] = "switch_to_frame" =>
            \E j \in (i + 1)..Len(calls) :
                /\ calls[j] = "default_content"
                /\ \A k \in (i + 1)..(j - 1) : calls[k] # "switch_to_frame"

\* C30 witness: a call that returned the record of the second pass, after
\* a first-pass visit that ended on the exception (switch, then switch back
\* with no extraction between them)
C30_Witness ==
    /\ Returned /\ by = "frames2"
    /\ \E i \in 1..(Len(calls) - 1) :
          calls[i] = "switch_to_frame" /\ calls[i + 1] = "default_content"
    /\ \E i \in 1..(Len(calls) - 2) :
          /\ calls[i] = "switch_to_frame" /\ calls[i + 1] = "frame"
          /\ calls[i + 2] = "default_content"

(***************************************************************************)
(* The monitoring loop: alerts, delivery, stopping.                        *)
(***************************************************************************)
\* C24: the loop sends an entry alert only for a reading whose player
\* percentage is strictly above PLAYER_WIN_THRESHOLD (98), and since the
\* notifier chooses red exactly when the player percentage is above 50,
\* every entry alert of the loop is a red (player) alert.
C24_AlertsAreRedAboveThreshold ==
    \A i \in Alerts :
        /\ log[i].player > Float(PLAYER_WIN_THRESHOLD)
        /\ log[i].color = "red"
        /\ log[i].color = AlertColor(log[i].player)

\* C24 witness: a cycle whose reading of 99 led to an entry alert, after a
\* cycle whose reading led to none
C24_Witness ==
    /\ cycle.n > 1
    /\ IsNone(before.alert) /\ ~before.alertFailed
    /\ \E i \in Alerts : log[i].player = Float(99) /\ log[i].ok

\* C29: last_stats_sent changes only when a status notification was
\* delivered: after a cycle whose status notification failed it still is
\* what it was before the cycle, the reading of the last notification
\* run_once handed over before, or None.
C29_UnchangedOnFailedSend ==
    \A i \in RunOnceStatus :
        ~log[i].ok =>
            IF IsNone(before.attempt) THEN IsNone(bot.last_stats_sent)
            ELSE /\ ~IsNone(bot.last_stats_sent)
                 /\ bot.last_stats_sent[1].player_percent = before.attempt[1]

\* the thread is in the while loop of run()
InLoop == bpc \in {"cycle", "periodic", "sleep"}

\* a shutdown message was handed to Telegram
ShutdownAttempted == ~IsNone(before.shutdown)

C28_NoBrowserLeftOpen ==
    bpc \in {"returned", "ended"} => bot.driver = "none"

(***************************************************************************)
(* The web controller under concurrent requests.                           *)
(***************************************************************************)
\* the threads that are inside the while loop of run()
Looping == {i \in Instances : bots[i].loop \in {"ready", "call", "sleep"}}

\* C25: at most one monitoring loop runs at any time: a /start after a
\* /stop never runs a second loop alongside one that has not yet exited.
C25_OneLoopAtATime == Cardinality(Looping) <= 1

\* C26: a /status request concurrent with /stop never calls status() on a
\* cleared instance: it answers with a status snapshot or with
\* {running: false}, never with an error.
C26_StatusNeverErrors == ui.reply # "error"

====
